---- MODULE Spec2Model ----
(***************************************************************************)
(* SharedCalendar (zdielany_webovy_kalendar_react_single_file.jsx): the    *)
(* React component's state, its two effects (load, persist), the event     *)
(* form, the month grid and the exporters, as a state machine.             *)
(*                                                                         *)
(* JavaScript values are records with one shape (JUndef .. JObj); strings  *)
(* are sequences of UTF-16 code units (numbers); time values are whole     *)
(* seconds since the epoch (the code's milliseconds, divided by 1000).     *)
(***************************************************************************)
EXTENDS Integers, Sequences, FiniteSets, TLC

(***************************************************************************)
(* Characters and strings                                                   *)
(***************************************************************************)

\* The printable ASCII characters: code units 32 .. 95 and 97 .. 126, in order
\* (96, the backquote, cannot be written in a string of this language).
AsciiLow ==
  " !\"#$%&'()*+,-./0123456789:;<=>?@ABCDEFGHIJKLMNOPQRSTUVWXYZ[\\]^_"
AsciiHigh == "abcdefghijklmnopqrstuvwxyz{|}~"

\* The code unit of the one-character string c.
CodeOf(c) ==
  IF \E k \in 1..Len(AsciiLow) : SubSeq(AsciiLow, k, k) = c
  THEN 31 + (CHOOSE k \in 1..Len(AsciiLow) : SubSeq(AsciiLow, k, k) = c)
  ELSE 96 + (CHOOSE k \in 1..Len(AsciiHigh) : SubSeq(AsciiHigh, k, k) = c)

\* A string literal as a sequence of code units.
Str(lit) == [i \in 1..Len(lit) |-> CodeOf(SubSeq(lit, i, i))] \o <<>>


\* The texts ToString and JSON.stringify give to the literals: true, false,
\* null, NaN, undefined, [object Object].
Lit ==
  [true |-> <<116, 114, 117, 101>>,
   false |-> <<102, 97, 108, 115, 101>>,
   null |-> <<110, 117, 108, 108>>,
   nan |-> <<78, 97, 78>>,
   undefined |-> <<117, 110, 100, 101, 102, 105, 110, 101, 100>>,
   object |-> <<91, 111, 98, 106, 101, 99, 116, 32, 79, 98, 106, 101, 99, 116, 93>>]

\* The function f on 1..n as a tuple (evaluated once, element by element).
Tuple(f) == f \o <<>>

\* Body of v: v under a local name, evaluated once.
With(v, Body(_)) == Body(v)

\* The least and the greatest element of a non-empty set of integers.
Min(S) == CHOOSE x \in S : \A y \in S : x <= y
Max(S) == 0 - Min({0 - x : x \in S})

\* The first j of lo..hi where P holds; hi + 1 when there is none.
First(lo, hi, P(_)) ==
  IF lo > hi THEN hi + 1
  ELSE CHOOSE j \in lo..(hi + 1) :
         (j = hi + 1 \/ P(j)) /\ \A k \in lo..(j - 1) : ~P(k)

\* The concatenation of the sequences ss[lo..hi], by halving (the depth of
\* the evaluation stays logarithmic in the length).
RECURSIVE FlattenRange(_, _, _)
FlattenRange(ss, lo, hi) ==
  IF lo > hi THEN <<>>
  ELSE IF lo = hi THEN ss[lo]
  ELSE LET mid == (lo + hi) \div 2
       IN FlattenRange(ss, lo, mid) \o FlattenRange(ss, mid + 1, hi)

Flatten(ss) == FlattenRange(ss, 1, Len(ss))

\* The indices 1..n as a sequence.
Indices(n) == Tuple([i \in 1..n |-> i])

\* The decimal text of an array index.
RECURSIVE IndexKey(_)
IndexKey(n) == IF n < 10 THEN <<48 + n>> ELSE Append(IndexKey(n \div 10), 48 + (n % 10))

(***************************************************************************)
(* JavaScript values                                                        *)
(***************************************************************************)

JVal(t, n, d, s, k, a) == [t |-> t, n |-> n, d |-> d, s |-> s, k |-> k, a |-> a]

JUndef == JVal("undefined", 0, 0, <<>>, <<>>, <<>>)
JNull == JVal("null", 0, 0, <<>>, <<>>, <<>>)
JNaN == JVal("nan", 0, 0, <<>>, <<>>, <<>>)
JBool(b) == JVal("bool", IF b THEN 1 ELSE 0, 0, <<>>, <<>>, <<>>)
\* The number n / 10^d, with n not a multiple of 10 unless d = 0.
RECURSIVE JNum(_, _)
JNum(n, d) ==
  IF d > 0 /\ n % 10 = 0 THEN JNum(n \div 10, d - 1)
  ELSE JVal("num", n, d, <<>>, <<>>, <<>>)
JInt(n) == JNum(n, 0)
JStr(s) == JVal("str", 0, 0, s, <<>>, <<>>)
JArr(a) == JVal("arr", 0, 0, <<>>, <<>>, a)
\* An object: its own keys in insertion order, and their values.
JObj(k, a) == JVal("obj", 0, 0, <<>>, k, a)

IsArr(v) == v.t = "arr"

\* ToBoolean.
Truthy(v) ==
  CASE v.t \in {"undefined", "null", "nan"} -> FALSE
    [] v.t = "bool" -> v.n = 1
    [] v.t = "num" -> v.n # 0
    [] v.t = "str" -> v.s # <<>>
    [] OTHER -> TRUE

\* a || b
Or(a, b) == IF Truthy(a) THEN a ELSE b

\* a === b on primitives.
StrictEq(a, b) == a.t # "nan" /\ a = b

\* o.key: undefined when o has no such own key (or is a primitive).
Get(o, key) ==
  IF o.t = "obj" /\ \E i \in 1..Len(o.k) : o.k[i] = key
  THEN o.a[CHOOSE i \in 1..Len(o.k) : o.k[i] = key]
  ELSE JUndef

\* The own enumerable properties of v, as {...v} copies them: an object's, an
\* array's elements and a string's characters under their indices; none for
\* any other primitive.
OwnKeys(v) ==
  CASE v.t = "obj" -> v.k
    [] v.t = "arr" -> Tuple([i \in 1..Len(v.a) |-> IndexKey(i - 1)])
    [] v.t = "str" -> Tuple([i \in 1..Len(v.s) |-> IndexKey(i - 1)])
    [] OTHER -> <<>>
OwnValues(v) ==
  CASE v.t = "obj" -> v.a
    [] v.t = "arr" -> v.a
    [] v.t = "str" -> Tuple([i \in 1..Len(v.s) |-> JStr(<<v.s[i]>>)])
    [] OTHER -> <<>>

\* {...o, key: v}: o's own properties, key overwritten in place or appended.
SpreadSet(o, key, v) ==
  LET ks == OwnKeys(o)
      vs == OwnValues(o)
  IN IF \E i \in 1..Len(ks) : ks[i] = key
     THEN JObj(ks, Tuple([i \in 1..Len(ks) |-> IF ks[i] = key THEN v ELSE vs[i]]))
     ELSE JObj(Append(ks, key), Append(vs, v))

(***************************************************************************)
(* Numbers and their text                                                   *)
(***************************************************************************)

IsDigit(c) == c >= 48 /\ c <= 57

RECURSIVE Pow10(_)
Pow10(d) == IF d = 0 THEN 1 ELSE 10 * Pow10(d - 1)

\* The decimal digits of the natural number n, at least w of them.
RECURSIVE Digits(_, _)
Digits(n, w) ==
  IF n < 10 /\ w <= 1 THEN <<48 + n>>
  ELSE Append(Digits(n \div 10, w - 1), 48 + (n % 10))

\* The value of a sequence of decimal digits.
RECURSIVE DigitsValue(_)
DigitsValue(ds) ==
  IF ds = <<>> THEN 0
  ELSE 10 * DigitsValue(SubSeq(ds, 1, Len(ds) - 1)) + (ds[Len(ds)] - 48)

\* Number::toString of n / 10^d (no exponent form in the modelled range).
NumberToString(v) ==
  With(IF v.n < 0 THEN -v.n ELSE v.n, LAMBDA abs :
    (IF v.n < 0 THEN <<45>> ELSE <<>>)
    \o (IF v.d = 0 THEN Digits(abs, 1)
        ELSE Digits(abs \div Pow10(v.d), 1) \o <<46>>
             \o Digits(abs % Pow10(v.d), v.d)))

\* s.trim(): without the white space at its ends (of StrWhiteSpaceChar: tab,
\* LF, VT, FF, CR, space, no-break space).
Trim(s) ==
  LET nonblank == {i \in 1..Len(s) : s[i] \notin {9, 10, 11, 12, 13, 32, 160}}
  IN IF nonblank = {} THEN <<>> ELSE SubSeq(s, Min(nonblank), Max(nonblank))

\* A decimal text split at its first dot: the texts before and after it,
\* whether there is a dot, and whether all the rest is digits.
SplitDecimal(body) ==
  With(First(1, Len(body), LAMBDA j : body[j] = 46), LAMBDA dot :
    [ip |-> SubSeq(body, 1, dot - 1),
     fp |-> SubSeq(body, dot + 1, Len(body)),
     dotted |-> dot <= Len(body),
     digits |-> \A j \in 1..Len(body) : j = dot \/ IsDigit(body[j])])

\* Number(string): StringToNumber for decimal literals with an optional sign
\* and fraction ("", and all blanks, is 0; anything else is NaN). Exponents,
\* hex and Infinity are outside the modelled alphabet.
StringToNumber(s) ==
  With(Trim(s), LAMBDA t :
    IF t = <<>> THEN JInt(0)
    ELSE With(SplitDecimal(IF t[1] \in {45, 43} THEN Tail(t) ELSE t),
              LAMBDA p :
           IF p.digits /\ Len(p.ip) + Len(p.fp) >= 1
           THEN JNum((IF t[1] = 45 THEN -1 ELSE 1) * DigitsValue(p.ip \o p.fp),
                     Len(p.fp))
           ELSE JNaN))

\* ToString(v): an array's elements joined with commas, null and undefined
\* among them as the empty text.
RECURSIVE JsToString(_)
JsToString(v) ==
  CASE v.t = "str" -> v.s
    [] v.t = "num" -> NumberToString(v)
    [] v.t = "nan" -> Lit.nan
    [] v.t = "null" -> Lit.null
    [] v.t = "undefined" -> Lit.undefined
    [] v.t = "bool" -> IF v.n = 1 THEN Lit.true ELSE Lit.false
    [] v.t = "arr" ->
         Flatten(Tuple([i \in 1..Len(v.a) |->
                   (IF i = 1 THEN <<>> ELSE <<44>>)
                   \o (IF v.a[i].t \in {"null", "undefined"} THEN <<>>
                       ELSE JsToString(v.a[i]))]))
    [] OTHER -> Lit.object

\* Number(v): ToNumber.
ToNumber(v) ==
  CASE v.t = "num" -> v
    [] v.t = "null" -> JInt(0)
    [] v.t = "bool" -> JInt(v.n)
    [] v.t \in {"str", "arr"} -> StringToNumber(JsToString(v))
    [] OTHER -> JNaN

(***************************************************************************)
(* JSON.stringify and JSON.parse                                            *)
(***************************************************************************)

\* The hexadecimal digit of n, in lower or in upper case.
HexDigit(n, upper) == IF n < 10 THEN 48 + n ELSE (IF upper THEN 55 ELSE 87) + n

HexValue(c) ==
  IF IsDigit(c) THEN c - 48
  ELSE IF c >= 97 /\ c <= 102 THEN c - 87
  ELSE IF c >= 65 /\ c <= 70 THEN c - 55
  ELSE -1

\* QuoteJSONString, one code unit: \" \\ \b \f \n \r \t, \u00xx for the other
\* control characters.
JsonEscapeChar(c) ==
  CASE c \in {34, 92} -> <<92, c>>
    [] c = 8 -> <<92, 98>>
    [] c = 12 -> <<92, 102>>
    [] c = 10 -> <<92, 110>>
    [] c = 13 -> <<92, 114>>
    [] c = 9 -> <<92, 116>>
    [] c < 32 /\ c \notin {8, 9, 10, 12, 13} ->
         <<92, 117, 48, 48, HexDigit(c \div 16, FALSE), HexDigit(c % 16, FALSE)>>
    [] OTHER -> <<c>>

JsonQuote(s) ==
  <<34>> \o Flatten(Tuple([i \in 1..Len(s) |-> JsonEscapeChar(s[i])])) \o <<34>>

\* parts joined with sep between them.
Join(parts, sep) ==
  Flatten(Tuple([i \in 1..Len(parts) |-> IF i = 1 THEN parts[i] ELSE sep \o parts[i]]))

\* JSON.stringify(v) for v other than undefined: an undefined element of an
\* array prints as null, an undefined property is left out.
RECURSIVE JsonStringify(_)
JsonStringify(v) ==
  CASE v.t = "str" -> JsonQuote(v.s)
    [] v.t = "num" -> NumberToString(v)
    [] v.t = "bool" -> IF v.n = 1 THEN Lit.true ELSE Lit.false
    [] v.t = "arr" ->
         <<91>>
         \o Join(Tuple([i \in 1..Len(v.a) |->
                    IF v.a[i].t = "undefined" THEN Lit.null
                    ELSE JsonStringify(v.a[i])]), <<44>>)
         \o <<93>>
    [] v.t = "obj" ->
         <<123>>
         \o Join(SelectSeq(Tuple([i \in 1..Len(v.k) |->
                             IF v.a[i].t = "undefined" THEN <<>>
                             ELSE JsonQuote(v.k[i]) \o <<58>>
                                  \o JsonStringify(v.a[i])]),
                           LAMBDA m : m # <<>>), <<44>>)
         \o <<125>>
    [] OTHER -> Lit.null

\* The first index >= i of s that holds no JSON white space (tab, LF, CR,
\* space); Len(s) + 1: none.
SkipWs(s, i) == First(i, Len(s), LAMBDA j : s[j] \notin {9, 10, 13, 32})

\* How many backslashes stand in s right before index j, not before lo.
BackslashRun(s, lo, j) == First(0, j - lo - 1, LAMBDA d : s[j - 1 - d] # 92)

ParseFail == [ok |-> FALSE, v |-> JUndef, next |-> 0]
ParseOk(v, next) == [ok |-> TRUE, v |-> v, next |-> next]

\* The text between the quotes of a JSON string, unescaped: esc[k] tells
\* whether body[k] follows an escaping backslash.
JsonUnescapeWith(body, esc) ==
  LET n == Len(body)
      lead(k) == body[k] = 92 /\ ~esc[k]
      utail(k) == \E p \in (k - 4)..(k - 1) : p >= 1 /\ esc[p] /\ body[p] = 117
      hexok(k) == k + 4 <= n /\ \A q \in (k + 1)..(k + 4) : HexValue(body[q]) >= 0
      good(k) ==
        \/ utail(k)
        \/ lead(k)
        \/ esc[k] /\ body[k] \in {34, 92, 47, 98, 102, 110, 114, 116}
        \/ esc[k] /\ body[k] = 117 /\ hexok(k)
        \/ ~esc[k] /\ body[k] >= 32
      out(k) ==
        IF ~esc[k] THEN body[k]
        ELSE CASE body[k] = 98 -> 8
               [] body[k] = 102 -> 12
               [] body[k] = 110 -> 10
               [] body[k] = 114 -> 13
               [] body[k] = 116 -> 9
               [] body[k] = 117 ->
                    4096 * HexValue(body[k + 1]) + 256 * HexValue(body[k + 2])
                    + 16 * HexValue(body[k + 3]) + HexValue(body[k + 4])
               [] OTHER -> body[k]
  IN IF \A k \in 1..n : good(k)
     THEN [ok |-> TRUE,
           s |-> Flatten(Tuple([k \in 1..n |->
                   IF lead(k) \/ utail(k) THEN <<>> ELSE <<out(k)>>]))]
     ELSE [ok |-> FALSE, s |-> <<>>]

JsonUnescape(body) ==
  JsonUnescapeWith(body, Tuple([k \in 1..Len(body) |-> BackslashRun(body, 1, k) % 2 = 1]))

\* A JSON string starting at the quote s[i].
ParseString(s, i) ==
  With(First(i + 1, Len(s),
             LAMBDA j : s[j] = 34 /\ BackslashRun(s, i + 1, j) % 2 = 0),
       LAMBDA close :
    IF close > Len(s) THEN ParseFail
    ELSE With(JsonUnescape(SubSeq(s, i + 1, close - 1)), LAMBDA u :
           IF u.ok THEN ParseOk(JStr(u.s), close + 1) ELSE ParseFail))

\* A JSON number starting at s[i] (no exponent part in the modelled range).
ParseNumber(s, i) ==
  With(First(i, Len(s), LAMBDA j : ~(IsDigit(s[j]) \/ s[j] \in {45, 46})),
       LAMBDA stop :
    With(SplitDecimal(SubSeq(s, IF s[i] = 45 THEN i + 1 ELSE i, stop - 1)),
         LAMBDA p :
      IF /\ p.digits
         /\ p.ip # <<>>
         /\ (Len(p.ip) > 1 => p.ip[1] # 48)
         /\ (p.dotted => p.fp # <<>>)
      THEN ParseOk(JNum((IF s[i] = 45 THEN -1 ELSE 1) * DigitsValue(p.ip \o p.fp),
                        Len(p.fp)), stop)
      ELSE ParseFail))

StartsWith(s, i, lit) ==
  i + Len(lit) - 1 <= Len(s) /\ SubSeq(s, i, i + Len(lit) - 1) = lit

RECURSIVE ParseValue(_, _), ParseElems(_, _, _), ParseMembers(_, _, _)

\* The JSON value that starts at s[i] (white space already skipped).
ParseValue(s, i) ==
  IF i > Len(s) THEN ParseFail
  ELSE CASE s[i] = 34 -> ParseString(s, i)
         [] s[i] = 91 ->
              With(SkipWs(s, i + 1), LAMBDA j :
                IF j <= Len(s) /\ s[j] = 93 THEN ParseOk(JArr(<<>>), j + 1)
                ELSE ParseElems(s, j, <<>>))
         [] s[i] = 123 ->
              With(SkipWs(s, i + 1), LAMBDA j :
                IF j <= Len(s) /\ s[j] = 125
                THEN ParseOk(JObj(<<>>, <<>>), j + 1)
                ELSE ParseMembers(s, j, JObj(<<>>, <<>>)))
         [] s[i] = 45 \/ IsDigit(s[i]) -> ParseNumber(s, i)
         [] StartsWith(s, i, Lit.true) -> ParseOk(JBool(TRUE), i + 4)
         [] StartsWith(s, i, Lit.false) -> ParseOk(JBool(FALSE), i + 5)
         [] StartsWith(s, i, Lit.null) -> ParseOk(JNull, i + 4)
         [] OTHER -> ParseFail

\* What follows a value that ended before s[from]: -1 when it is a comma
\* (the next value starts at .next), 1 when it is the closing bracket close
\* (the text goes on at .next), 0 when it is anything else.
AfterValue(s, from, close) ==
  With(SkipWs(s, from), LAMBDA j :
    IF j > Len(s) THEN [kind |-> 0, next |-> j]
    ELSE IF s[j] = 44 THEN [kind |-> -1, next |-> SkipWs(s, j + 1)]
    ELSE IF s[j] = close THEN [kind |-> 1, next |-> j + 1]
    ELSE [kind |-> 0, next |-> j])

\* The elements of an array from s[i] on, after those in acc.
ParseElems(s, i, acc) ==
  With(ParseValue(s, i), LAMBDA e :
    IF ~e.ok THEN ParseFail
    ELSE With(AfterValue(s, e.next, 93), LAMBDA f :
           CASE f.kind = -1 -> ParseElems(s, f.next, Append(acc, e.v))
             [] f.kind = 1 -> ParseOk(JArr(Append(acc, e.v)), f.next)
             [] OTHER -> ParseFail))

\* The members of an object from s[i] on, added to obj.
ParseMembers(s, i, obj) ==
  IF i > Len(s) \/ s[i] # 34 THEN ParseFail
  ELSE With(ParseString(s, i), LAMBDA key :
    IF ~key.ok THEN ParseFail
    ELSE With(SkipWs(s, key.next), LAMBDA c :
      IF c > Len(s) \/ s[c] # 58 THEN ParseFail
      ELSE With(ParseValue(s, SkipWs(s, c + 1)), LAMBDA e :
        IF ~e.ok THEN ParseFail
        ELSE With(AfterValue(s, e.next, 125), LAMBDA f :
          CASE f.kind = -1 -> ParseMembers(s, f.next, SpreadSet(obj, key.v.s, e.v))
            [] f.kind = 1 -> ParseOk(SpreadSet(obj, key.v.s, e.v), f.next)
            [] OTHER -> ParseFail))))

\* JSON.parse(text): ok = FALSE stands for the SyntaxError it throws.
JsonParse(text) ==
  With(ParseValue(text, SkipWs(text, 1)), LAMBDA r :
    IF r.ok /\ SkipWs(text, r.next) > Len(text)
    THEN [ok |-> TRUE, v |-> r.v]
    ELSE [ok |-> FALSE, v |-> JUndef])

(***************************************************************************)
(* encodeURIComponent / decodeURIComponent, btoa / atob, the query string   *)
(***************************************************************************)

\* The code units encodeURIComponent leaves alone: A-Z a-z 0-9 - _ . ! ~ * ' ( )
UriUnreserved ==
  {c \in 32..126 : \/ IsDigit(c) \/ (c >= 65 /\ c <= 90) \/ (c >= 97 /\ c <= 122)
                   \/ c \in {45, 95, 46, 33, 126, 42, 39, 40, 41}}
\* The code units the application/x-www-form-urlencoded serializer leaves
\* alone: A-Z a-z 0-9 * - . _
FormUnreserved ==
  {c \in 32..126 : \/ IsDigit(c) \/ (c >= 65 /\ c <= 90) \/ (c >= 97 /\ c <= 122)
                   \/ c \in {42, 45, 46, 95}}

\* %XX
PercentByte(b) == <<37, HexDigit(b \div 16, TRUE), HexDigit(b % 16, TRUE)>>

IsHighSurrogate(c) == c >= 55296 /\ c <= 56319
IsLowSurrogate(c) == c >= 56320 /\ c <= 57343

\* The UTF-8 bytes of a code point, each as %XX.
Utf8Percent(c) ==
  IF c < 128 THEN PercentByte(c)
  ELSE IF c < 2048 THEN PercentByte(192 + (c \div 64)) \o PercentByte(128 + (c % 64))
  ELSE IF c < 65536
  THEN PercentByte(224 + (c \div 4096)) \o PercentByte(128 + ((c \div 64) % 64))
       \o PercentByte(128 + (c % 64))
  ELSE PercentByte(240 + (c \div 262144)) \o PercentByte(128 + ((c \div 4096) % 64))
       \o PercentByte(128 + ((c \div 64) % 64)) \o PercentByte(128 + (c % 64))

\* encodeURIComponent(s); ok = FALSE is the URIError for a lone surrogate.
\* hi[i]: s[i] is the high surrogate of a pair.
EncodeURIComponent(s) ==
  With(Tuple([i \in 1..Len(s) |->
         IsHighSurrogate(s[i]) /\ i < Len(s) /\ IsLowSurrogate(s[i + 1])]),
       LAMBDA hi :
    IF \E i \in 1..Len(s) : /\ (IsHighSurrogate(s[i]) \/ IsLowSurrogate(s[i]))
                             /\ ~hi[i] /\ ~(i > 1 /\ hi[i - 1])
    THEN [ok |-> FALSE, s |-> <<>>]
    ELSE [ok |-> TRUE,
          s |-> Flatten(Tuple([i \in 1..Len(s) |->
                  IF s[i] \in UriUnreserved THEN <<s[i]>>
                  ELSE IF hi[i]
                  THEN Utf8Percent(65536 + (s[i] - 55296) * 1024 + (s[i + 1] - 56320))
                  ELSE IF i > 1 /\ hi[i - 1] THEN <<>>
                  ELSE Utf8Percent(s[i])]))])

\* The escapes of s resolved: a sequence of units [v, esc], esc = TRUE for a
\* byte that came from %XX. ok = FALSE when a % is not followed by two hex
\* digits (with strict; otherwise such a % stands for itself). With plus, a
\* "+" stands for a space.
PercentUnits(s, strict, plus) ==
  With(Tuple([i \in 1..Len(s) |->
         /\ s[i] = 37 /\ i + 2 <= Len(s)
         /\ HexValue(s[i + 1]) >= 0 /\ HexValue(s[i + 2]) >= 0]),
       LAMBDA pct :
    [ok |-> ~strict \/ \A i \in 1..Len(s) : s[i] = 37 => pct[i],
     u |-> With(SelectSeq(Indices(Len(s)),
                          LAMBDA i : ~((i > 1 /\ pct[i - 1]) \/ (i > 2 /\ pct[i - 2]))),
                LAMBDA keep :
             Tuple([j \in 1..Len(keep) |->
               IF pct[keep[j]]
               THEN [v |-> 16 * HexValue(s[keep[j] + 1]) + HexValue(s[keep[j] + 2]),
                     esc |-> TRUE]
               ELSE IF plus /\ s[keep[j]] = 43 THEN [v |-> 32, esc |-> FALSE]
               ELSE [v |-> s[keep[j]], esc |-> FALSE]]))])

\* UTF-8 decoding of the escaped bytes among units u, into UTF-16 code units
\* (a sequence of four bytes gives a surrogate pair). An invalid byte fails
\* the decoding (strict) or becomes U+FFFD. cont[i]: u[i] is a continuation
\* byte; lead[i]: the length of the sequence u[i] leads, 1 for a byte that
\* leads none, 0 for a unit that is no byte.
Utf8Decode(u, strict) ==
  With(Tuple([i \in 1..(Len(u) + 3) |->
         i <= Len(u) /\ u[i].esc /\ u[i].v >= 128 /\ u[i].v <= 191]),
       LAMBDA cont :
  With(Tuple([i \in 1..Len(u) |->
         IF ~(u[i].esc /\ u[i].v >= 128) THEN 0
         ELSE IF u[i].v >= 194 /\ u[i].v <= 223 /\ cont[i + 1] THEN 2
         ELSE IF /\ u[i].v >= 224 /\ u[i].v <= 239 /\ cont[i + 1] /\ cont[i + 2]
                 /\ (u[i].v = 224 => u[i + 1].v >= 160)
                 /\ (u[i].v = 237 => u[i + 1].v <= 159)
         THEN 3
         ELSE IF /\ u[i].v >= 240 /\ u[i].v <= 244
                 /\ cont[i + 1] /\ cont[i + 2] /\ cont[i + 3]
                 /\ (u[i].v = 240 => u[i + 1].v >= 144)
                 /\ (u[i].v = 244 => u[i + 1].v <= 143)
         THEN 4
         ELSE 1]),
       LAMBDA lead :
  With(Tuple([i \in 1..Len(u) |->
         \/ (i > 1 /\ lead[i - 1] >= 2)
         \/ (i > 2 /\ lead[i - 2] >= 3)
         \/ (i > 3 /\ lead[i - 3] = 4)]),
       LAMBDA consumed :
    [ok |-> ~strict \/ \A i \in 1..Len(u) : lead[i] # 1 \/ consumed[i],
     s |-> With(SelectSeq(Indices(Len(u)), LAMBDA i : ~consumed[i]), LAMBDA keep :
             Flatten(Tuple([j \in 1..Len(keep) |->
               CASE lead[keep[j]] = 2 ->
                      <<(u[keep[j]].v - 192) * 64 + (u[keep[j] + 1].v - 128)>>
                 [] lead[keep[j]] = 3 ->
                      <<(u[keep[j]].v - 224) * 4096 + (u[keep[j] + 1].v - 128) * 64
                        + (u[keep[j] + 2].v - 128)>>
                 [] lead[keep[j]] = 4 ->
                      With((u[keep[j]].v - 240) * 262144 + (u[keep[j] + 1].v - 128) * 4096
                           + (u[keep[j] + 2].v - 128) * 64 + (u[keep[j] + 3].v - 128)
                           - 65536,
                           LAMBDA c : <<55296 + (c \div 1024), 56320 + (c % 1024)>>)
                 [] lead[keep[j]] = 1 -> <<65533>>
                 [] OTHER -> <<u[keep[j]].v>>])))])))

\* decodeURIComponent(s); ok = FALSE is the URIError it throws.
DecodeURIComponent(s) ==
  With(PercentUnits(s, TRUE, FALSE), LAMBDA pu :
    With(Utf8Decode(pu.u, TRUE), LAMBDA d :
      IF pu.ok /\ d.ok THEN [ok |-> TRUE, s |-> d.s] ELSE [ok |-> FALSE, s |-> <<>>]))

\* The base64 character of a six-bit value.
Base64Char(v) ==
  IF v < 26 THEN 65 + v
  ELSE IF v < 52 THEN 97 + (v - 26)
  ELSE IF v < 62 THEN 48 + (v - 52)
  ELSE IF v = 62 THEN 43
  ELSE 47

\* The six-bit value of a base64 character, -1 for any other character.
Base64Value(c) ==
  IF c >= 65 /\ c <= 90 THEN c - 65
  ELSE IF c >= 97 /\ c <= 122 THEN c - 97 + 26
  ELSE IF IsDigit(c) THEN c - 48 + 52
  ELSE IF c = 43 THEN 62
  ELSE IF c = 47 THEN 63
  ELSE -1

\* btoa(s); ok = FALSE is the InvalidCharacterError for a code unit above
\* 255. Every three bytes give four characters; "=" (61) pads the last group.
Btoa(s) ==
  IF \E i \in 1..Len(s) : s[i] > 255 THEN [ok |-> FALSE, s |-> <<>>]
  ELSE With(s \o <<0, 0>>, LAMBDA p :
         [ok |-> TRUE,
          s |-> Flatten(Tuple([g \in 1..((Len(s) + 2) \div 3) |->
                  <<Base64Char(p[3 * g - 2] \div 4),
                    Base64Char((p[3 * g - 2] % 4) * 16 + (p[3 * g - 1] \div 16)),
                    IF 3 * g - 1 > Len(s) THEN 61
                    ELSE Base64Char((p[3 * g - 1] % 16) * 4 + (p[3 * g] \div 64)),
                    IF 3 * g > Len(s) THEN 61 ELSE Base64Char(p[3 * g] % 64)>>]))])

\* atob(s): forgiving-base64 decode (ASCII white space is dropped first);
\* ok = FALSE is the InvalidCharacterError.
Atob(s) ==
  With(SelectSeq(s, LAMBDA c : c \notin {9, 10, 12, 13, 32}), LAMBDA t :
  With(IF Len(t) > 0 /\ Len(t) % 4 = 0 /\ t[Len(t)] = 61
       THEN (IF t[Len(t) - 1] = 61 THEN 2 ELSE 1)
       ELSE 0,
       LAMBDA pads :
  With(Tuple([i \in 1..(Len(t) - pads) |-> Base64Value(t[i])]), LAMBDA v :
    IF Len(v) % 4 = 1 \/ \E i \in 1..Len(v) : v[i] < 0
    THEN [ok |-> FALSE, s |-> <<>>]
    ELSE With(v \o <<0, 0, 0>>, LAMBDA p :
           [ok |-> TRUE,
            s |-> SubSeq(Flatten(Tuple([g \in 1..((Len(v) + 3) \div 4) |->
                           <<p[4 * g - 3] * 4 + (p[4 * g - 2] \div 16),
                             (p[4 * g - 2] % 16) * 16 + (p[4 * g - 1] \div 4),
                             (p[4 * g - 1] % 4) * 64 + p[4 * g]>>])),
                         1, (Len(v) * 6) \div 8)]))))

\* application/x-www-form-urlencoded serializing of one name or value.
FormEncode(s) ==
  Flatten(Tuple([i \in 1..Len(s) |->
    IF s[i] \in FormUnreserved THEN <<s[i]>>
    ELSE IF s[i] = 32 THEN <<43>>
    ELSE Utf8Percent(s[i])]))

\* application/x-www-form-urlencoded parsing of one name or value.
FormDecode(s) == Utf8Decode(PercentUnits(s, FALSE, TRUE).u, FALSE).s

\* The pieces of s between the occurrences of sep.
Split(s, sep) ==
  With(<<0>> \o SelectSeq(Indices(Len(s)), LAMBDA i : s[i] = sep) \o <<Len(s) + 1>>,
       LAMBDA cut :
    Tuple([k \in 1..(Len(cut) - 1) |-> SubSeq(s, cut[k] + 1, cut[k + 1] - 1)]))

\* new URLSearchParams(search): the name-value pairs of a query string, cut
\* at "&" (38) and at the first "=" (61) of each piece, after a leading "?".
ParseQuery(search) ==
  With(SelectSeq(Split(IF search # <<>> /\ search[1] = 63 THEN Tail(search) ELSE search,
                       38),
                 LAMBDA p : p # <<>>),
       LAMBDA parts :
    Tuple([i \in 1..Len(parts) |->
      With(First(1, Len(parts[i]), LAMBDA j : parts[i][j] = 61), LAMBDA eq :
        Tuple([k \in 1..2 |->
          FormDecode(IF k = 1 THEN SubSeq(parts[i], 1, eq - 1)
                     ELSE SubSeq(parts[i], eq + 1, Len(parts[i])))]))]))

\* URLSearchParams.get(name): the first value of name, or null.
SearchParamsGet(pairs, name) ==
  With(First(1, Len(pairs), LAMBDA i : pairs[i][1] = name), LAMBDA hit :
    IF hit > Len(pairs) THEN JNull ELSE JStr(pairs[hit][2]))

\* URLSearchParams.set(name, value): the first pair of that name takes the
\* value and the others of that name go; without one, the pair is appended.
SearchParamsSet(pairs, name, value) ==
  With(First(1, Len(pairs), LAMBDA i : pairs[i][1] = name), LAMBDA hit :
    IF hit > Len(pairs) THEN Append(pairs, <<name, value>>)
    ELSE With(SelectSeq(Indices(Len(pairs)), LAMBDA i : pairs[i][1] # name \/ i = hit),
              LAMBDA keep :
           Tuple([j \in 1..Len(keep) |->
             IF keep[j] = hit THEN <<name, value>> ELSE pairs[keep[j]]])))

\* The query string of a URL with these pairs ("" when there are none).
SerializeQuery(pairs) ==
  IF pairs = <<>> THEN <<>>
  ELSE <<63>>
       \o Join(Tuple([i \in 1..Len(pairs) |->
                  FormEncode(pairs[i][1]) \o <<61>> \o FormEncode(pairs[i][2])]),
               <<38>>)

(***************************************************************************)
(* Date: time values are whole seconds since 1970-01-01T00:00:00Z; the      *)
(* local time zone is a fixed offset of tz minutes east of UTC.             *)
(***************************************************************************)

SecondsPerDay == 24 * 60 * 60

\* Day(t): the day number of a time value, and the seconds into that day.
DayOf(t) == t \div SecondsPerDay
TimeWithinDay(t) == t % SecondsPerDay

\* MakeDay(year, month, date): the day number of the civil date; month runs
\* from 0 and both month and date may lie outside their range, as in the
\* Date constructor and setDate. (mn: the month from 1; y: the year that
\* starts in March; yoe: the year of its 400-year era.)
MakeDay(year, month, date) ==
  With((month % 12) + 1, LAMBDA mn :
  With(year + (month \div 12) - (IF mn <= 2 THEN 1 ELSE 0), LAMBDA y :
  With(y % 400, LAMBDA yoe :
    (y \div 400) * 146097 + yoe * 365 + (yoe \div 4) - (yoe \div 100)
    + ((153 * (IF mn > 2 THEN mn - 3 ELSE mn + 9) + 2) \div 5)
    - 719468 + (date - 1))))

\* YearFromTime, MonthFromTime (from 0), DateFromTime of a day number. (doe:
\* the day of the 400-year era; yoe: the year of the era; doy: the day of
\* the year that starts in March; mp: its month, March being 0.)
CivilFromDay(day) ==
  With((day + 719468) % 146097, LAMBDA doe :
  With((doe - (doe \div 1460) + (doe \div 36524) - (doe \div 146096)) \div 365,
       LAMBDA yoe :
  With(doe - (365 * yoe + (yoe \div 4) - (yoe \div 100)), LAMBDA doy :
  With((5 * doy + 2) \div 153, LAMBDA mp :
    [year |-> yoe + ((day + 719468) \div 146097) * 400 + (IF mp >= 10 THEN 1 ELSE 0),
     month |-> IF mp < 10 THEN mp + 2 ELSE mp - 10,
     date |-> doy - ((153 * mp + 2) \div 5) + 1]))))

\* WeekDay(t): 0 is Sunday; day number 0 was a Thursday.
WeekDay(day) == (day + 4) % 7

\* LocalTime(t) for the zone offset tz (minutes).
LocalTime(t, tz) == t + tz * 60
\* UTC(t) of a local time.
UtcOfLocal(t, tz) == t - tz * 60

\* A Date object: a time value, or NaN (an invalid date).
ValidDate(t) == [ok |-> TRUE, t |-> t]
InvalidDate == [ok |-> FALSE, t |-> 0]

\* new Date(year, month, date): local midnight of that civil date.
NewDateYMD(year, month, date, tz) ==
  ValidDate(UtcOfLocal(MakeDay(year, month, date) * SecondsPerDay, tz))

\* getFullYear(), getMonth(), getDate(), getDay(): local fields.
GetFullYear(d, tz) == CivilFromDay(DayOf(LocalTime(d.t, tz))).year
GetMonth(d, tz) == CivilFromDay(DayOf(LocalTime(d.t, tz))).month
GetDate(d, tz) == CivilFromDay(DayOf(LocalTime(d.t, tz))).date
GetDay(d, tz) == WeekDay(DayOf(LocalTime(d.t, tz)))

\* d.setDate(date): the local day of the month replaced, the rest kept.
SetDate(d, date, tz) ==
  ValidDate(UtcOfLocal(MakeDay(GetFullYear(d, tz), GetMonth(d, tz), date) * SecondsPerDay
                       + TimeWithinDay(LocalTime(d.t, tz)), tz))

\* toISOString(): YYYY-MM-DDTHH:mm:ss.sssZ in UTC (years 0 .. 9999).
ToISOString(d) ==
  With(CivilFromDay(DayOf(d.t)), LAMBDA c :
    Digits(c.year, 4) \o <<45>> \o Digits(c.month + 1, 2) \o <<45>>
    \o Digits(c.date, 2) \o <<84>> \o Digits(TimeWithinDay(d.t) \div 3600, 2)
    \o <<58>> \o Digits((TimeWithinDay(d.t) \div 60) % 60, 2)
    \o <<58>> \o Digits(TimeWithinDay(d.t) % 60, 2)
    \o <<46, 48, 48, 48, 90>>)

\* toTimeString().slice(0, 5): HH:mm of the local time.
ToTimeStringHHMM(d, tz) ==
  Digits(TimeWithinDay(LocalTime(d.t, tz)) \div 3600, 2) \o <<58>>
  \o Digits((TimeWithinDay(LocalTime(d.t, tz)) \div 60) % 60, 2)

AllDigits(s, lo, hi) == hi <= Len(s) /\ \A i \in lo..hi : IsDigit(s[i])

\* The number written in s[lo..hi].
Field(s, lo, hi) == DigitsValue(SubSeq(s, lo, hi))

\* The days of month m (from 1) of year y.
DaysInMonth(y, m) ==
  IF m = 2 THEN (IF (y % 4 = 0 /\ y % 100 # 0) \/ y % 400 = 0 THEN 29 ELSE 28)
  ELSE IF m \in {4, 6, 9, 11} THEN 30 ELSE 31

\* s starts with YYYY-MM-DD, a day of the calendar.
IsCalendarDate(s) ==
  /\ Len(s) >= 10
  /\ AllDigits(s, 1, 4) /\ s[5] = 45 /\ AllDigits(s, 6, 7) /\ s[8] = 45
  /\ AllDigits(s, 9, 10)
  /\ Field(s, 6, 7) >= 1 /\ Field(s, 6, 7) <= 12
  /\ Field(s, 9, 10) >= 1
  /\ Field(s, 9, 10) <= DaysInMonth(Field(s, 1, 4), Field(s, 6, 7))

\* s[lo..] starts with HH:mm, a time of the day.
IsClockTime(s, lo) ==
  /\ lo + 4 <= Len(s)
  /\ AllDigits(s, lo, lo + 1) /\ s[lo + 2] = 58 /\ AllDigits(s, lo + 3, lo + 4)
  /\ Field(s, lo, lo + 1) <= 23 /\ Field(s, lo + 3, lo + 4) <= 59

\* Date.parse of the date-time string format: YYYY-MM-DD alone (UTC), or
\* followed by THH:mm, THH:mm:ss or THH:mm:ss.sss, local time unless a Z
\* follows. Fractions of a second are dropped; any other text is invalid.
\* (m: the length without the Z.)
DateParse(s, tz) ==
  With(IF Len(s) > 10 /\ s[Len(s)] = 90 THEN Len(s) - 1 ELSE Len(s), LAMBDA m :
    IF ~IsCalendarDate(s) THEN InvalidDate
    ELSE IF Len(s) = 10
    THEN ValidDate(MakeDay(Field(s, 1, 4), Field(s, 6, 7) - 1, Field(s, 9, 10))
                   * SecondsPerDay)
    ELSE IF /\ m \in {16, 19, 23} /\ s[11] = 84 /\ IsClockTime(s, 12)
            /\ (m >= 19 => s[17] = 58 /\ AllDigits(s, 18, 19) /\ Field(s, 18, 19) <= 59)
            /\ (m = 23 => s[20] = 46 /\ AllDigits(s, 21, 23))
    THEN ValidDate(MakeDay(Field(s, 1, 4), Field(s, 6, 7) - 1, Field(s, 9, 10))
                     * SecondsPerDay
                   + Field(s, 12, 13) * 3600 + Field(s, 15, 16) * 60
                   + (IF m >= 19 THEN Field(s, 18, 19) ELSE 0)
                   - (IF m < Len(s) THEN 0 ELSE tz * 60))
    ELSE InvalidDate)

\* new Date(v) for one argument: a string is parsed, a number is a time value
\* in milliseconds, null is 0; anything else gives an invalid date.
NewDate(v, tz) ==
  CASE v.t = "str" -> DateParse(v.s, tz)
    [] v.t = "num" /\ v.d = 0 -> ValidDate(v.n \div 1000)
    [] v.t = "null" -> ValidDate(0)
    [] OTHER -> InvalidDate

(***************************************************************************)
(* SharedCalendar: the component's functions                                *)
(***************************************************************************)

KeyId == <<105, 100>>  \* "id"
KeyTitle == <<116, 105, 116, 108, 101>>  \* "title"
KeyStart == <<115, 116, 97, 114, 116>>  \* "start"
KeyDuration == <<100, 117, 114, 97, 116, 105, 111, 110>>  \* "duration"
KeyDescription == <<100, 101, 115, 99, 114, 105, 112, 116, 105, 111, 110>>  \* "description"
KeyAttendees == <<97, 116, 116, 101, 110, 100, 101, 101, 115>>  \* "attendees"
EventKeys == <<KeyId, KeyTitle, KeyStart, KeyDuration, KeyDescription, KeyAttendees>>
ParamShared == <<115, 104, 97, 114, 101, 100>>  \* "shared"
\* "(bez názvu)"
Placeholder == <<40, 98, 101, 122, 32, 110, 225, 122, 118, 117, 41>>

DefaultDuration == 60

\* useState({title: "", date: "", time: "09:00", duration: 60, ...})
InitialForm ==
  [title |-> JStr(<<>>), date |-> JStr(<<>>), time |-> JStr(<<48, 57, 58, 48, 48>>),
   duration |-> JInt(60), description |-> JStr(<<>>),
   attendees |-> JStr(<<>>)]

\* The load effect's try block up to Array.isArray(decoded): the elements of
\* the array the shared parameter decodes to. ok = FALSE: atob,
\* decodeURIComponent or JSON.parse threw, or the value is no array.
DecodeShared(shared) ==
  With(Atob(shared), LAMBDA a :
    IF ~a.ok THEN [ok |-> FALSE, a |-> <<>>]
    ELSE With(DecodeURIComponent(a.s), LAMBDA d :
      IF ~d.ok THEN [ok |-> FALSE, a |-> <<>>]
      ELSE With(JsonParse(d.s), LAMBDA p :
        IF p.ok /\ IsArr(p.v) THEN [ok |-> TRUE, a |-> p.v.a]
        ELSE [ok |-> FALSE, a |-> <<>>])))

\* The elements of arr for which e.id || cryptoRandomId() calls cryptoRandomId.
NeedsId(arr) == {i \in 1..Len(arr) : ~Truthy(Get(arr[i], KeyId))}

\* A map that gives every element a new id: decoded.map(e => ({...e, id: "x"})).
AssignNewIds(arr, rnd) ==
  [ok |-> TRUE,
   v |-> JArr(Tuple([i \in 1..Len(arr) |-> SpreadSet(arr[i], KeyId, JStr(<<120>>))]))]

\* decoded.map(e => ({...e, id: e.id || cryptoRandomId()})), cryptoRandomId
\* returning rnd[i] for element i; ok = FALSE: e.id threw on null.
AssignIds(arr, rnd) ==
  IF \E i \in 1..Len(arr) : arr[i].t \in {"null", "undefined"}
  THEN [ok |-> FALSE, v |-> JUndef]
  ELSE [ok |-> TRUE,
        v |-> JArr(Tuple([i \in 1..Len(arr) |->
                SpreadSet(arr[i], KeyId,
                          IF Truthy(Get(arr[i], KeyId)) THEN Get(arr[i], KeyId)
                          ELSE JStr(rnd[i]))]))]

\* What the load effect finds in the address: the array of the shared
\* parameter, if there is one and it decodes.
SharedArray(search) ==
  With(SearchParamsGet(ParseQuery(search), ParamShared), LAMBDA shared :
    IF Truthy(shared) THEN DecodeShared(shared.s) ELSE [ok |-> FALSE, a |-> <<>>])

\* The load effect: [set |-> whether setEvents is called, v |-> with what],
\* for the shared array dec found in the address.
LoadEffect(dec, stored, rnd) ==
  With(IF dec.ok THEN AssignIds(dec.a, rnd) ELSE [ok |-> FALSE, v |-> JUndef],
       LAMBDA mapped :
    IF mapped.ok THEN [set |-> TRUE, v |-> mapped.v]
    ELSE With(IF Truthy(stored) THEN JsonParse(stored.s)
              ELSE [ok |-> FALSE, v |-> JUndef],
              LAMBDA raw : [set |-> raw.ok, v |-> raw.v]))

\* A persist effect that writes only the first event of the list.
PersistedTextOfFirst(evs) ==
  JsonStringify(JArr(SubSeq(evs.a, 1, Min({1, Len(evs.a)}))))

\* The persist effect: localStorage.setItem(STORAGE_KEY, JSON.stringify(events)).
PersistedText(evs) == JsonStringify(evs)

\* makeShareLink(): the query string of the link (the rest of the URL is kept).
MakeShareLink(evs, search) ==
  With(EncodeURIComponent(JsonStringify(evs)), LAMBDA enc :
    IF ~enc.ok THEN [ok |-> FALSE, s |-> <<>>]
    ELSE With(Btoa(enc.s), LAMBDA b :
      IF ~b.ok THEN [ok |-> FALSE, s |-> <<>>]
      ELSE [ok |-> TRUE,
            s |-> SerializeQuery(SearchParamsSet(ParseQuery(search), ParamShared, b.s))]))

\* startOfMonth(d)
StartOfMonth(d, tz) == NewDateYMD(GetFullYear(d, tz), GetMonth(d, tz), 1, tz)

\* prevMonth(), nextMonth(): the first of the month delta months away.
ShiftMonth(d, delta, tz) ==
  NewDateYMD(GetFullYear(d, tz), GetMonth(d, tz) + delta, 1, tz)

GridCells == 42

\* A grid whose weeks start on Monday: gridStart is the first of the month
\* less (startWeekDay + 6) % 7 days.
BuildMonthGridFromMonday(d, tz) ==
  Tuple([i \in 1..GridCells |->
    SetDate(StartOfMonth(d, tz),
            1 - ((GetDay(StartOfMonth(d, tz), tz) + 6) % 7) + (i - 1), tz)])

\* buildMonthGrid(d): 42 dates from the first of d's month back to its Sunday.
BuildMonthGrid(d, tz) ==
  With(StartOfMonth(d, tz), LAMBDA first :
    With(SetDate(first, GetDate(first, tz) - GetDay(first, tz), tz), LAMBDA gridStart :
      Tuple([i \in 1..GridCells |->
        SetDate(gridStart, GetDate(gridStart, tz) + (i - 1), tz)])))

\* The filter of eventsForDay(date): the start st lies within the local day
\* of date.
StartsOnDay(st, date, tz) ==
  /\ st.ok
  /\ st.t >= NewDateYMD(GetFullYear(date, tz), GetMonth(date, tz),
                        GetDate(date, tz), tz).t
  /\ st.t < NewDateYMD(GetFullYear(date, tz), GetMonth(date, tz),
                       GetDate(date, tz) + 1, tz).t

\* eventsForDay(date): the indices into the list of the events of that day,
\* sorted by start (a stable sort: equal starts keep the list's order).
\* st[i] is new Date(ev.start) of event i of the list.
EventsForDay(st, date, tz) ==
  With({i \in 1..Len(st) : StartsOnDay(st[i], date, tz)}, LAMBDA on :
    Tuple([r \in 1..Cardinality(on) |->
      CHOOSE i \in on :
        Cardinality({j \in on : \/ st[j].t < st[i].t
                                \/ (st[j].t = st[i].t /\ j < i)}) = r - 1]))

ShownPerDay == 4

\* The events the month view shows as clickable: dayEvents.slice(0, 4) of
\* each cell of the grid.
ShownEvents(evs, viewDate, tz) ==
  With(BuildMonthGrid(viewDate, tz), LAMBDA grid :
  With(Tuple([i \in 1..Len(evs) |-> NewDate(Get(evs[i], KeyStart), tz)]), LAMBDA st :
    UNION {With(EventsForDay(st, grid[c], tz), LAMBDA day :
             {day[r] : r \in 1..Min({Len(day), ShownPerDay})}) : c \in 1..GridCells}))

\* What render() throws on: events.filter on a value that is no array, ev.start
\* on null, or makeShareLink() failing.
RenderThrows(evs, search) ==
  \/ ~IsArr(evs)
  \/ \E i \in 1..Len(evs.a) : evs.a[i].t \in {"null", "undefined"}
  \/ ~MakeShareLink(evs, search).ok

\* The value an <input> shows for the prop value={v}.
DomValue(v) == IF v.t \in {"null", "undefined"} THEN <<>> ELSE JsToString(v)

\* A valid floating-point number of HTML (without an exponent part).
IsValidFloat(s) ==
  With(SplitDecimal(IF s # <<>> /\ s[1] = 45 THEN Tail(s) ELSE s), LAMBDA p :
    p.digits /\ p.ip # <<>> /\ (p.dotted => p.fp # <<>>))

MinDuration == 1

\* The form's constraint validation, which runs before onSubmit: title, date
\* and time are required (a valid date string YYYY-MM-DD, a valid time string
\* HH:MM); the duration input is type="number" min={1}, whose value is the
\* empty string unless the prop is a valid floating-point number.
FormPassesValidation(f) ==
  /\ DomValue(f.title) # <<>>
  /\ With(DomValue(f.date), LAMBDA s :
       Len(s) = 10 /\ IsCalendarDate(s) /\ Field(s, 1, 4) >= 1)
  /\ With(DomValue(f.time), LAMBDA s : Len(s) = 5 /\ IsClockTime(s, 1))
  /\ With(DomValue(f.duration), LAMBDA dv :
       IsValidFloat(dv) =>
         With(StringToNumber(dv), LAMBDA n : n.d = 0 /\ n.n >= MinDuration))

\* form.attendees.split(",").map(s => s.trim()).filter(Boolean)
ParseAttendees(s) ==
  With(Split(s, 44), LAMBDA parts :
    With(SelectSeq(Tuple([i \in 1..Len(parts) |-> Trim(parts[i])]),
                   LAMBDA t : t # <<>>),
         LAMBDA kept : JArr(Tuple([i \in 1..Len(kept) |-> JStr(kept[i])]))))

\* (ev.attendees || []).join(", "); ok = FALSE: join is not a function.
JoinAttendees(v) ==
  With(Or(v, JArr(<<>>)), LAMBDA a :
    IF ~IsArr(a) THEN [ok |-> FALSE, s |-> <<>>]
    ELSE [ok |-> TRUE,
          s |-> Join(Tuple([i \in 1..Len(a.a) |-> DomValue(a.a[i])]), <<44, 32>>)])

\* openEditModal(ev): the form it sets; ok = FALSE: toISOString threw on an
\* invalid date, or join is not a function.
EditForm(ev, tz) ==
  With(NewDate(Get(ev, KeyStart), tz), LAMBDA d :
    With(JoinAttendees(Get(ev, KeyAttendees)), LAMBDA att :
      IF ~d.ok \/ ~att.ok THEN [ok |-> FALSE, form |-> InitialForm]
      ELSE [ok |-> TRUE,
            form |-> [title |-> Get(ev, KeyTitle),
                      date |-> JStr(SubSeq(ToISOString(d), 1, 10)),
                      time |-> JStr(ToTimeStringHHMM(d, tz)),
                      duration |-> Or(Get(ev, KeyDuration), JInt(DefaultDuration)),
                      description |-> Or(Get(ev, KeyDescription), JStr(<<>>)),
                      attendees |-> JStr(att.s)]]))

\* Number(form.duration) || 60
SavedDuration(v) == Or(ToNumber(v), JInt(DefaultDuration))

\* The event saveEvent builds from the form, with the given id; ok = FALSE:
\* toISOString threw on an invalid date.
BuildEvent(f, id, tz) ==
  With(NewDate(JStr(JsToString(f.date) \o <<84>> \o JsToString(f.time)), tz),
       LAMBDA start :
    IF ~start.ok THEN [ok |-> FALSE, ev |-> JUndef]
    ELSE [ok |-> TRUE,
          ev |-> JObj(EventKeys,
                      <<id,
                        Or(f.title, JStr(Placeholder)),
                        JStr(ToISOString(start)),
                        SavedDuration(f.duration),
                        f.description,
                        ParseAttendees(JsToString(f.attendees))>>)])

\* prev.map(p => p.id === ev.id ? ev : p)
ReplaceById(evs, ev) ==
  JArr(Tuple([i \in 1..Len(evs.a) |->
          IF StrictEq(Get(evs.a[i], KeyId), Get(ev, KeyId)) THEN ev ELSE evs.a[i]]))

\* [...prev, ev]
AppendEvent(evs, ev) == JArr(Append(evs.a, ev))

\* A filter with the test the other way round: prev.filter(p => p.id === id).
KeepById(evs, id) ==
  JArr(SelectSeq(evs.a, LAMBDA p : StrictEq(Get(p, KeyId), id)))

\* prev.filter(p => p.id !== id)
RemoveById(evs, id) ==
  JArr(SelectSeq(evs.a, LAMBDA p : ~StrictEq(Get(p, KeyId), id)))

\* The fixed texts of exportICS.
Ics ==
  [summary |->
     \* SUMMARY:
     <<83, 85, 77, 77, 65, 82, 89, 58>>,
   description |->
     \* DESCRIPTION:
     <<68, 69, 83, 67, 82, 73, 80, 84, 73, 79, 78, 58>>,
   attendee |->
     \* ATTENDEE:
     <<65, 84, 84, 69, 78, 68, 69, 69, 58>>,
   uidDomain |->
     \* @sharedcalendar.local
     <<64, 115, 104, 97, 114, 101, 100, 99, 97, 108, 101, 110, 100, 97, 114, 46,
       108, 111, 99, 97, 108>>,
   beginEvent |->
     \* BEGIN:VEVENT
     <<66, 69, 71, 73, 78, 58, 86, 69, 86, 69, 78, 84>>,
   uid |->
     \* UID:
     <<85, 73, 68, 58>>,
   dtstamp |->
     \* DTSTAMP:
     <<68, 84, 83, 84, 65, 77, 80, 58>>,
   dtstart |->
     \* DTSTART:
     <<68, 84, 83, 84, 65, 82, 84, 58>>,
   dtend |->
     \* DTEND:
     <<68, 84, 69, 78, 68, 58>>,
   endEvent |->
     \* END:VEVENT
     <<69, 78, 68, 58, 86, 69, 86, 69, 78, 84>>,
   beginCalendar |->
     \* BEGIN:VCALENDAR
     <<66, 69, 71, 73, 78, 58, 86, 67, 65, 76, 69, 78, 68, 65, 82>>,
   version |->
     \* VERSION:2.0
     <<86, 69, 82, 83, 73, 79, 78, 58, 50, 46, 48>>,
   prodId |->
     \* PRODID:-//SharedCalendar/1.0//SK
     <<80, 82, 79, 68, 73, 68, 58, 45, 47, 47, 83, 104, 97, 114, 101, 100, 67,
       97, 108, 101, 110, 100, 97, 114, 47, 49, 46, 48, 47, 47, 83, 75>>,
   endCalendar |->
     \* END:VCALENDAR
     <<69, 78, 68, 58, 86, 67, 65, 76, 69, 78, 68, 65, 82>>]

\* The literal '\,' of escapeICSText: in a string literal a backslash before a
\* comma escapes nothing, so the replacement text is the comma alone.
IcsCommaReplacement == <<44>>
\* The literal '\\n': a backslash and the letter n.
IcsNewlineReplacement == <<92, 110>>

\* escapeICSText(s = ''): s.replace(/\n/g, '\\n').replace(/,/g, '\,');
\* ok = FALSE: s has no replace method (it is no string).
EscapeICSText(v) ==
  IF v.t \notin {"undefined", "str"} THEN [ok |-> FALSE, s |-> <<>>]
  ELSE With(Flatten(Tuple([i \in 1..Len(v.s) |->
              IF v.s[i] = 10 THEN IcsNewlineReplacement ELSE <<v.s[i]>>])),
            LAMBDA step1 :
         [ok |-> TRUE,
          s |-> Flatten(Tuple([i \in 1..Len(step1) |->
                  IF step1[i] = 44 THEN IcsCommaReplacement ELSE <<step1[i]>>]))])

\* formatICSDatetime(d): YYYYMMDDTHHMMSSZ in UTC; NaN fields print as "NaN".
FormatICSDatetime(d) ==
  IF ~d.ok
  THEN With(Lit.nan, LAMBDA x : x \o x \o x \o <<84>> \o x \o x \o x \o <<90>>)
  ELSE With(CivilFromDay(DayOf(d.t)), LAMBDA c :
         Digits(c.year, 1) \o Digits(c.month + 1, 2) \o Digits(c.date, 2)
         \o <<84>> \o Digits(TimeWithinDay(d.t) \div 3600, 2)
         \o Digits((TimeWithinDay(d.t) \div 60) % 60, 2)
         \o Digits(TimeWithinDay(d.t) % 60, 2) \o <<90>>)

\* new Date(start.getTime() + (ev.duration || 60) * 60 * 1000)
EndOfEvent(start, duration) ==
  With(ToNumber(Or(duration, JInt(60))), LAMBDA dur :
    IF ~start.ok \/ dur.t # "num" THEN InvalidDate
    ELSE ValidDate(start.t + ((dur.n * 60) \div Pow10(dur.d))))

\* ev.attendees && ev.attendees.length
HasAttendees(att) ==
  Truthy(att) /\ att.t \in {"arr", "str"} /\ Len(IF IsArr(att) THEN att.a ELSE att.s) > 0

\* The lines exportICS pushes for one event; ok = FALSE: it threw.
IcsEventLines(ev, now, tz) ==
  With(Ics, LAMBDA ics :
  With(NewDate(Get(ev, KeyStart), tz), LAMBDA start :
  With(EscapeICSText(Get(ev, KeyTitle)), LAMBDA title :
  With(IF Truthy(Get(ev, KeyDescription)) THEN EscapeICSText(Get(ev, KeyDescription))
       ELSE [ok |-> TRUE, s |-> <<>>],
       LAMBDA desc :
  With(Get(ev, KeyAttendees), LAMBDA att :
    IF ~title.ok \/ ~desc.ok \/ (HasAttendees(att) /\ ~IsArr(att))
    THEN [ok |-> FALSE, lines |-> <<>>]
    ELSE [ok |-> TRUE,
          lines |->
            <<ics.beginEvent,
              ics.uid \o JsToString(Get(ev, KeyId)) \o ics.uidDomain,
              ics.dtstamp \o FormatICSDatetime(now),
              ics.dtstart \o FormatICSDatetime(start),
              ics.dtend \o FormatICSDatetime(EndOfEvent(start, Get(ev, KeyDuration))),
              ics.summary \o title.s>>
            \o (IF Truthy(Get(ev, KeyDescription)) THEN <<ics.description \o desc.s>>
                ELSE <<>>)
            \o (IF HasAttendees(att) THEN <<ics.attendee \o JoinAttendees(att).s>>
                ELSE <<>>)
            \o <<ics.endEvent>>])))))

\* exportICS(): the lines of the calendar document (joined with CRLF in the
\* file); ok = FALSE: it threw and nothing is downloaded.
ExportICS(evs, now, tz) ==
  With(Tuple([i \in 1..Len(evs.a) |-> IcsEventLines(evs.a[i], now, tz)]), LAMBDA per :
    IF \E i \in 1..Len(per) : ~per[i].ok THEN [ok |-> FALSE, lines |-> <<>>]
    ELSE With(Ics, LAMBDA ics :
           [ok |-> TRUE,
            lines |-> <<ics.beginCalendar, ics.version, ics.prodId>>
                      \o Flatten(Tuple([i \in 1..Len(per) |-> per[i].lines]))
                      \o <<ics.endCalendar>>]))

(***************************************************************************)
(* The component's state                                                    *)
(***************************************************************************)

VARIABLES
  tz,            \* the local zone's offset from UTC, in minutes
  now,           \* what new Date() returns (a Date)
  search,        \* window.location.search
  storage,       \* localStorage[STORAGE_KEY]: null or a string
  phase,         \* "start": rendered, effects not yet run; "ready"; "crashed"
  events,        \* useState([])
  dirty,         \* events changed and the persist effect has not yet run
  modalOpen,     \* useState(false)
  editingEvent,  \* useState(null)
  form,          \* useState({...})
  viewDate,      \* useState(new Date())
  clipboard,     \* what copyShareLink wrote: null or the link's query string
  download,      \* what exportICS last downloaded: null or the lines
  bootStored,    \* history: the stored item when the load effect ran
  linkEvents,    \* history: the events when the link on the clipboard was made
  last           \* history: the last handler or effect that ran, and how it went

vars == <<tz, now, search, storage, phase, events, dirty, modalOpen, editingEvent,
          form, viewDate, clipboard, download, bootStored, linkEvents, last>>

\* The first render's state, in a page opened with this query string.
FirstRender(q) ==
  /\ search' = q
  /\ phase' = "start"
  /\ events' = JArr(<<>>)
  /\ dirty' = FALSE
  /\ modalOpen' = FALSE
  /\ editingEvent' = JNull
  /\ form' = InitialForm
  /\ viewDate' = now
  /\ download' = JNull

\* The mount: the load effect, then the persist effect with the first
\* render's events ([]), then the re-render with what the load effect set. A
\* render that throws unmounts the component. ids: what cryptoRandomId() may
\* return.
Mount(ids) ==
  /\ phase = "start"
  /\ \E dec \in {SharedArray(search)} :
       \E rnd \in [NeedsId(dec.a) -> ids] :
         \E r \in {LoadEffect(dec, storage, rnd)} :
           \E evs \in {IF r.set THEN r.v ELSE events} :
             \E crash \in {RenderThrows(evs, search)} :
               /\ events' = evs
               /\ dirty' = (r.set /\ ~crash)
               /\ phase' = IF crash THEN "crashed" ELSE "ready"
  /\ storage' = JStr(PersistedText(events))
  /\ bootStored' = storage
  /\ last' = "mount"
  /\ UNCHANGED <<tz, now, search, modalOpen, editingEvent, form, viewDate,
                 clipboard, download, linkEvents>>

\* The persist effect of a render whose events changed.
PersistEffect ==
  /\ phase = "ready" /\ dirty
  /\ storage' = JStr(PersistedText(events))
  /\ dirty' = FALSE
  /\ UNCHANGED <<tz, now, search, phase, events, modalOpen, editingEvent, form,
                 viewDate, clipboard, download, bootStored, linkEvents, last>>

\* The page is interactive: rendered, and the effects of the last render ran.
Idle == phase = "ready" /\ ~dirty

\* The header and the month view can be clicked: the modal's overlay (fixed
\* inset-0) does not cover them.
Clickable == Idle /\ ~modalOpen

\* prevMonth() (delta = -1), nextMonth() (delta = 1), as far as the model
\* lets the view go from the clock's month.
TurnMonth(delta, far) ==
  /\ Clickable
  /\ \E d \in {ShiftMonth(viewDate, delta, tz)} :
       /\ d.t - now.t <= far * 31 * SecondsPerDay
       /\ now.t - d.t <= far * 31 * SecondsPerDay
       /\ viewDate' = d
  /\ last' = "other"
  /\ UNCHANGED <<tz, now, search, storage, phase, events, dirty, modalOpen,
                 editingEvent, form, clipboard, download, bootStored, linkEvents>>

\* goToday()
GoToday ==
  /\ Clickable
  /\ viewDate' = now
  /\ last' = "other"
  /\ UNCHANGED <<tz, now, search, storage, phase, events, dirty, modalOpen,
                 editingEvent, form, clipboard, download, bootStored, linkEvents>>

\* openNewModal(dateIso)
OpenNewModal(dateIso) ==
  /\ Clickable
  /\ editingEvent' = JNull
  /\ form' = [InitialForm EXCEPT !.date = JStr(dateIso)]
  /\ modalOpen' = TRUE
  /\ last' = "other"
  /\ UNCHANGED <<tz, now, search, storage, phase, events, dirty, viewDate,
                 clipboard, download, bootStored, linkEvents>>

\* The header's button: openNewModal(new Date().toISOString().slice(0,10)).
OpenNewToday == OpenNewModal(SubSeq(ToISOString(now), 1, 10))

\* openEditModal(ev). When it throws, no state changes.
OpenEditModal(ev) ==
  /\ \E f \in {EditForm(ev, tz)} :
       IF f.ok
       THEN /\ editingEvent' = ev
            /\ form' = f.form
            /\ modalOpen' = TRUE
            /\ last' = "other"
       ELSE /\ UNCHANGED <<editingEvent, form, modalOpen>>
            /\ last' = "threw"
  /\ UNCHANGED <<tz, now, search, storage, phase, events, dirty, viewDate,
                 clipboard, download, bootStored, linkEvents>>

\* A click on one of the events the month view shows.
OpenEditClick ==
  /\ Clickable
  /\ \E i \in ShownEvents(events.a, viewDate, tz) : OpenEditModal(events.a[i])

\* onChange of one input of the form: setForm({...form, field: e.target.value}).
ChangeField(field, text) ==
  /\ Idle /\ modalOpen
  /\ form' = [form EXCEPT ![field] = JStr(text)]
  /\ last' = "other"
  /\ UNCHANGED <<tz, now, search, storage, phase, events, dirty, modalOpen,
                 editingEvent, viewDate, clipboard, download, bootStored, linkEvents>>

\* The submit button: the form's validation, then saveEvent(e), creating no
\* more than max events. When toISOString throws, no state changes.
SaveEvent(ids, max) ==
  /\ Idle /\ modalOpen
  /\ Truthy(editingEvent) \/ Len(events.a) < max
  /\ FormPassesValidation(form)
  /\ \E id \in (IF Truthy(editingEvent) THEN {Get(editingEvent, KeyId)}
                ELSE {JStr(rnd) : rnd \in ids}) :
       \E b \in {BuildEvent(form, id, tz)} :
         IF b.ok
         THEN /\ events' = IF Truthy(editingEvent) THEN ReplaceById(events, b.ev)
                           ELSE AppendEvent(events, b.ev)
              /\ dirty' = TRUE
              /\ modalOpen' = FALSE
              /\ last' = "save"
         ELSE /\ UNCHANGED <<events, dirty, modalOpen>>
              /\ last' = "threw"
  /\ UNCHANGED <<tz, now, search, storage, phase, editingEvent, form, viewDate,
                 clipboard, download, bootStored, linkEvents>>

\* The modal's cancel button.
CancelModal ==
  /\ Idle /\ modalOpen
  /\ modalOpen' = FALSE
  /\ last' = "other"
  /\ UNCHANGED <<tz, now, search, storage, phase, events, dirty, editingEvent,
                 form, viewDate, clipboard, download, bootStored, linkEvents>>

\* deleteEvent(id), with the answer the user gives to confirm().
DeleteEvent(id, confirmed) ==
  /\ IF confirmed
     THEN /\ events' = RemoveById(events, id)
          /\ dirty' = TRUE
     ELSE UNCHANGED <<events, dirty>>
  /\ last' = IF ~confirmed THEN "delete-declined"
             ELSE IF \E i \in 1..Len(events.a) : StrictEq(Get(events.a[i], KeyId), id)
             THEN "delete-present"
             ELSE "delete-absent"

\* The modal's delete button: deleteEvent(editingEvent.id); setModalOpen(false).
DeleteClick(confirmed) ==
  /\ Idle /\ modalOpen /\ Truthy(editingEvent)
  /\ DeleteEvent(Get(editingEvent, KeyId), confirmed)
  /\ modalOpen' = FALSE
  /\ UNCHANGED <<tz, now, search, storage, phase, editingEvent, form, viewDate,
                 clipboard, download, bootStored, linkEvents>>

\* copyShareLink(): the link goes to the clipboard.
CopyShareLink ==
  /\ Clickable
  /\ clipboard' = JStr(MakeShareLink(events, search).s)
  /\ linkEvents' = events
  /\ last' = "other"
  /\ UNCHANGED <<tz, now, search, storage, phase, events, dirty, modalOpen,
                 editingEvent, form, viewDate, download, bootStored>>

\* The export button: exportICS(). When it throws, nothing is downloaded.
ExportClick ==
  /\ Clickable
  /\ \E x \in {ExportICS(events, now, tz)} :
       IF x.ok
       THEN /\ download' = JArr(Tuple([i \in 1..Len(x.lines) |-> JStr(x.lines[i])]))
            /\ last' = "other"
       ELSE /\ UNCHANGED download
            /\ last' = "threw"
  /\ UNCHANGED <<tz, now, search, storage, phase, events, dirty, modalOpen,
                 editingEvent, form, viewDate, clipboard, bootStored, linkEvents>>

\* The page is loaded again with the same address.
Reload ==
  /\ phase \in {"ready", "crashed"} /\ ~dirty
  /\ FirstRender(search)
  /\ last' = "other"
  /\ UNCHANGED <<tz, now, storage, clipboard, bootStored, linkEvents>>

\* The link on the clipboard is opened (in this browser: the same storage).
OpenLink ==
  /\ phase \in {"ready", "crashed"} /\ ~dirty
  /\ Truthy(clipboard)
  /\ FirstRender(clipboard.s)
  /\ last' = "other"
  /\ UNCHANGED <<tz, now, storage, clipboard, bootStored, linkEvents>>

(***************************************************************************)
(* Inputs                                                                   *)
(***************************************************************************)

\* An event with its six fields, in the order saveEvent writes them.
MkEvent(id, title, start, duration, description, attendees) ==
  JObj(EventKeys, <<id, title, start, duration, description, attendees>>)

\* The clock of the session: 2024-03-15T10:00:00Z.
Clock == DateParse(Str("2024-03-15T10:00:00.000Z"), 0)

\* What cryptoRandomId() may return: Math.random().toString(36).slice(2, 9)
\* is up to seven base-36 digits, and nothing keeps two calls apart.
IdPool == {Str("k"), Str("7f3")}

\* A plain event, as saveEvent builds it.
Event(id, title, start) ==
  MkEvent(JStr(Str(id)), JStr(Str(title)), JStr(Str(start)), JInt(60),
          JStr(<<>>), JArr(<<>>))

EventA == Event("k", "A", "2024-03-15T09:00:00.000Z")

\* The query string of a link to a snapshot holding evs.
LinkTo(evs) == MakeShareLink(JArr(evs), <<>>).s

\* A shared parameter holding text, as btoa(encodeURIComponent(text)).
SharedOf(text) ==
  SerializeQuery(<<<<ParamShared, Btoa(EncodeURIComponent(text).s).s>>>>)

\* The stored item holding the list evs.
Stored(evs) == JStr(JsonStringify(JArr(evs)))

\* The most events the model lets the form create.
MaxEvents == 2

\* The page is opened: a time zone, and <<query string, stored item>>.
InitWith(zones, pages) ==
  /\ tz \in zones
  /\ now = Clock
  /\ \E pg \in pages : search = pg[1] /\ storage = pg[2]
  /\ phase = "start"
  /\ events = JArr(<<>>)
  /\ dirty = FALSE
  /\ modalOpen = FALSE
  /\ editingEvent = JNull
  /\ form = InitialForm
  /\ viewDate = Clock
  /\ clipboard = JNull
  /\ download = JNull
  /\ bootStored = JNull
  /\ linkEvents = JNull
  /\ last = "other"

(***************************************************************************)
(* What the data model calls a valid event list                             *)
(***************************************************************************)

\* A positive integer number.
IsPositiveInteger(v) == v.t = "num" /\ v.d = 0 /\ v.n >= 1

\* An event of the data model: a non-empty string id, a string title, a start
\* that parses to an instant, a positive integer duration, a string
\* description and a list of strings as attendees.
ValidEvent(e) ==
  /\ e.t = "obj" /\ e.k = EventKeys
  /\ Get(e, KeyId).t = "str" /\ Get(e, KeyId).s # <<>>
  /\ Get(e, KeyTitle).t = "str"
  /\ Get(e, KeyStart).t = "str" /\ NewDate(Get(e, KeyStart), 0).ok
  /\ IsPositiveInteger(Get(e, KeyDuration))
  /\ Get(e, KeyDescription).t = "str"
  /\ IsArr(Get(e, KeyAttendees))
  /\ \A i \in 1..Len(Get(e, KeyAttendees).a) : Get(e, KeyAttendees).a[i].t = "str"

\* A valid event list: valid events with pairwise different ids.
ValidList(v) ==
  /\ IsArr(v)
  /\ \A i \in 1..Len(v.a) : ValidEvent(v.a[i])
  /\ \A i, j \in 1..Len(v.a) : i # j => Get(v.a[i], KeyId) # Get(v.a[j], KeyId)

\* The address carries no shared parameter.
NoSharedParam == ~Truthy(SearchParamsGet(ParseQuery(search), ParamShared))

\* This step is saveEvent storing an event.
SaveStep == modalOpen /\ last' = "save"

(***************************************************************************)
(* Spec: the life of the event list (load, create, edit, delete, persist)   *)
(***************************************************************************)

\* A stored list; and a link to a snapshot whose second event has the id of
\* the first (the load effect asks a snapshot only to be an array).
Init ==
  InitWith({0}, {<<<<>>, Stored(<<EventA>>)>>,
                 <<LinkTo(<<EventA, Event("k", "N", "2024-03-16T09:00:00.000Z")>>),
                   JNull>>})

Next ==
  \/ Mount(IdPool)
  \/ PersistEffect
  \/ OpenNewToday
  \/ OpenEditClick
  \/ ChangeField("title", Str("B"))
  \/ SaveEvent(IdPool, MaxEvents)
  \/ CancelModal
  \/ \E c \in BOOLEAN : DeleteClick(c)
  \/ Reload

Spec == Init /\ [][Next]_vars

\* C1: in every state reached by the startup load and any creates, edits and
\* deletes, no two events of the list have the same id.
IdsAreUnique ==
  IsArr(events) =>
    \A i, j \in 1..Len(events.a) :
      i # j => ~StrictEq(Get(events.a[i], KeyId), Get(events.a[j], KeyId))

\* C3: saving the form while editing the event E keeps the length of the list,
\* keeps every other event as it is and where it is, and puts at E's place the
\* event with E's id that is built from the form.
EditReplacesOnlyTheEdited ==
  [][(SaveStep /\ Truthy(editingEvent)) =>
       /\ Len(events'.a) = Len(events.a)
       /\ \E p \in 1..Len(events.a) :
            /\ events.a[p] = editingEvent
            /\ Get(events'.a[p], KeyId) = Get(editingEvent, KeyId)
            /\ events'.a[p] = BuildEvent(form, Get(editingEvent, KeyId), tz).ev
            /\ \A q \in 1..Len(events.a) : q # p => events'.a[q] = events.a[q]
    ]_vars

\* What the stored item held when the page was opened, parsed.
BootList ==
  IF Truthy(bootStored) THEN JsonParse(bootStored.s) ELSE [ok |-> FALSE, v |-> JUndef]

\* C8: once the persist effect of the last change has run (after startup, a
\* create, an edit, a delete), the stored item is the serialization of the
\* whole event list; and a page opened without a shared parameter on a valid
\* stored list L has L as its event list and as its stored list.
StorageHoldsTheList ==
  /\ Idle => storage = JStr(JsonStringify(events))
  /\ (Idle /\ last = "mount" /\ NoSharedParam /\ BootList.ok /\ ValidList(BootList.v))
       => /\ events = BootList.v
          /\ JsonParse(storage.s).ok /\ JsonParse(storage.s).v = BootList.v

\* C8's case: a page opened on a stored list, a second event created, and the
\* persist effect of that change done.
StoredAfterCreate ==
  /\ Idle /\ last = "save" /\ NoSharedParam
  /\ bootStored = Stored(<<EventA>>)
  /\ Len(events.a) = 2

(***************************************************************************)
(* SpecApi: deleteEvent(id) called with any id                              *)
(***************************************************************************)

EventB == Event("7f3", "B", "2024-03-20T12:00:00.000Z")

\* deleteEvent(id), whatever the modal shows.
DeleteCall(id, confirmed) ==
  /\ Idle
  /\ DeleteEvent(id, confirmed)
  /\ UNCHANGED <<tz, now, search, storage, phase, modalOpen, editingEvent, form,
                 viewDate, clipboard, download, bootStored, linkEvents>>

InitApi ==
  InitWith({0, 120}, {<<<<>>, Stored(<<EventA>>)>>,
                      <<<<>>, Stored(<<EventB, EventA>>)>>,
                      <<<<>>, Stored(<<EventA, EventB,
                                       Event("q", "C", "2024-03-20T08:00:00.000Z")>>)>>})

\* deleteEvent is called with the ids of the lists' events and with an id of
\* none ("zz").
NextApi ==
  \/ Mount(IdPool)
  \/ PersistEffect
  \/ \E id \in {Str("k"), Str("7f3"), Str("q"), Str("zz")} :
       \E c \in BOOLEAN : DeleteCall(JStr(id), c)

SpecApi == InitApi /\ [][NextApi]_vars

\* C4: deleteEvent(id) with an id no event of the list has leaves the list as
\* it is, the confirmation accepted or declined; a declined confirmation
\* leaves it as it is for any id.
DeleteOfAbsentKeepsList ==
  [][last' \in {"delete-absent", "delete-declined"} => events' = events]_vars

\* C4's case: a confirmed deleteEvent of an id that no event of a list of two
\* or more has.
DeletedAbsentId == last = "delete-absent" /\ dirty /\ Len(events.a) >= 2

(***************************************************************************)
(* SpecShare: a link is copied and opened                                   *)
(***************************************************************************)

\* An event whose texts need UTF-8 and JSON escapes: a title with s-caron, a
\* quote, a backslash and an emoji (a surrogate pair); a description of two
\* lines; two attendees.
EventU ==
  MkEvent(JStr(Str("7f3")), JStr(<<353, 34, 92, 55357, 56832, 43, 47>>),
          JStr(Str("2024-03-15T12:30:00.000Z")), JInt(45),
          JStr(Str("x") \o <<10>> \o Str("y, z=1&2")),
          JArr(<<JStr(Str("a@b.sk")), JStr(Str("c d"))>>))

\* Stored lists, one in a page whose address has parameters already, and one
\* the data model does not call valid: its event has no id.
InitShare ==
  InitWith({0}, {<<<<>>, Stored(<<EventA, EventU>>)>>,
                 <<Str("?lang=sk&shared=x"), Stored(<<EventU>>)>>,
                 <<<<>>,
                   Stored(<<JObj(<<KeyTitle, KeyStart, KeyDuration>>,
                                 <<JStr(Str("N")), JStr(Str("2024-03-16T09:00:00.000Z")),
                                   JInt(30)>>)>>)>>})

NextShare ==
  \/ Mount(IdPool)
  \/ PersistEffect
  \/ CopyShareLink
  \/ OpenLink
  \/ OpenEditClick
  \/ CancelModal
  \/ \E c \in BOOLEAN : DeleteClick(c)

SpecShare == InitShare /\ [][NextShare]_vars

\* C5: a page opened with the link that makeShareLink made from a valid event
\* list L (the empty list too) has L as its event list: the same events, the
\* same fields, the same order.
SharedLinkGivesTheList ==
  (last = "mount" /\ Truthy(clipboard) /\ search = clipboard.s /\ ValidList(linkEvents))
    => (phase = "ready" /\ events = linkEvents)

\* C5's case: the link of a valid list of two events, opened.
OpenedLinkOfTwo ==
  /\ last = "mount" /\ Truthy(clipboard) /\ search = clipboard.s
  /\ ValidList(linkEvents) /\ Len(linkEvents.a) = 2

(***************************************************************************)
(* SpecLoad: the page is opened on any address and any stored item          *)
(***************************************************************************)

\* Addresses: no parameter; a parameter atob refuses; one that is no JSON;
\* JSON that is no array; an array holding null; a link to a list.
LoadSearches ==
  {<<>>, Str("?shared=!!"), SharedOf(Str("{not json")), SharedOf(Str("{}")),
   SharedOf(Str("[null]")), LinkTo(<<EventA>>)}

\* Stored items: none; lists; text that is no JSON; JSON that is no list of
\* events.
LoadItems ==
  {JNull, JStr(Str("[]")), Stored(<<EventB>>), JStr(Str("{")), JStr(Str("{}")),
   JStr(Str("5")), JStr(Str("[null]"))}

InitLoad == InitWith({0}, LoadSearches \X LoadItems)

NextLoad ==
  \/ Mount(IdPool)
  \/ PersistEffect
  \/ Reload

SpecLoad == InitLoad /\ [][NextLoad]_vars

\* The list the stored item stands for: its list of records, or the empty
\* list when it is missing or corrupt.
StoredOrEmpty(item) ==
  IF /\ Truthy(item)
     /\ JsonParse(item.s).ok
     /\ IsArr(JsonParse(item.s).v)
     /\ \A i \in 1..Len(JsonParse(item.s).v.a) : JsonParse(item.s).v.a[i].t = "obj"
  THEN JsonParse(item.s).v
  ELSE JArr(<<>>)

\* C6: the startup load never fails and leaves the event list a sequence of
\* records: a malformed shared parameter is dropped and the list comes from
\* the stored item, and a missing or corrupt stored item gives the empty list.
LoadAlwaysGivesAList ==
  last = "mount" =>
    /\ phase = "ready"
    /\ IsArr(events)
    /\ \A i \in 1..Len(events.a) : events.a[i].t = "obj"
    /\ ~SharedArray(search).ok => events = StoredOrEmpty(bootStored)

(***************************************************************************)
(* SpecGrid: the month view is turned                                       *)
(***************************************************************************)

\* How many months the view is turned away from the clock's month.
MaxMonths == 24

InitGrid == InitWith({-480, 0, 120}, {<<<<>>, Stored(<<EventA>>)>>})

NextGrid ==
  \/ Mount(IdPool)
  \/ PersistEffect
  \/ TurnMonth(-1, MaxMonths)
  \/ TurnMonth(1, MaxMonths)
  \/ GoToday

SpecGrid == InitGrid /\ [][NextGrid]_vars

\* The local day number of the first of the month of the date d.
FirstDayOfMonth(d) ==
  MakeDay(GetFullYear(d, tz), GetMonth(d, tz), 1)

\* C7: buildMonthGrid gives exactly 42 cells, each the calendar day after the
\* one before it; cells 0 and 7 are Sundays; and cell 0 is the first day of
\* the month less that day's weekday.
GridIsSixWeeksFromSunday ==
  /\ Len(BuildMonthGrid(viewDate, tz)) = 42
  /\ \A i \in 1..41 :
       DayOf(LocalTime(BuildMonthGrid(viewDate, tz)[i + 1].t, tz))
         = DayOf(LocalTime(BuildMonthGrid(viewDate, tz)[i].t, tz)) + 1
  /\ WeekDay(DayOf(LocalTime(BuildMonthGrid(viewDate, tz)[1].t, tz))) = 0
  /\ WeekDay(DayOf(LocalTime(BuildMonthGrid(viewDate, tz)[8].t, tz))) = 0
  /\ DayOf(LocalTime(BuildMonthGrid(viewDate, tz)[1].t, tz))
       = FirstDayOfMonth(viewDate) - WeekDay(FirstDayOfMonth(viewDate))

\* C7's case: the view turned to a month of 31 days that starts on a
\* Saturday, which fills all six weeks.
TurnedToLongestGrid ==
  /\ Clickable /\ last = "other"
  /\ WeekDay(FirstDayOfMonth(viewDate)) = 6
  /\ DaysInMonth(GetFullYear(viewDate, tz), GetMonth(viewDate, tz)) = 31

(***************************************************************************)
(* SpecExport: events are written and exported                              *)
(***************************************************************************)

InitExport == InitWith({0}, {<<<<>>, JNull>>, <<<<>>, Stored(<<EventA>>)>>})

NextExport ==
  \/ Mount(IdPool)
  \/ PersistEffect
  \/ OpenNewToday
  \/ \E t \in {Str("Standup"), Str("Lunch, then demo")} : ChangeField("title", t)
  \/ ChangeField("description", Str("Room 2") \o <<10>> \o Str("bring slides, notes"))
  \/ SaveEvent(IdPool, MaxEvents)
  \/ CancelModal
  \/ ExportClick

SpecExport == InitExport /\ [][NextExport]_vars

\* C9: in the exported document every comma and every newline of a title or
\* a description is escaped, so the SUMMARY and DESCRIPTION lines hold no
\* newline, and no comma without a backslash before it.
TextLinesAreEscaped ==
  Truthy(download) =>
    \A i \in 1..Len(download.a) :
      (\/ StartsWith(download.a[i].s, 1, Ics.summary)
       \/ StartsWith(download.a[i].s, 1, Ics.description))
      => \A j \in 1..Len(download.a[i].s) :
           /\ download.a[i].s[j] # 10
           /\ download.a[i].s[j] = 44 => (j > 1 /\ download.a[i].s[j - 1] = 92)

(***************************************************************************)
(* SpecForm: events are opened in the form and saved                        *)
(***************************************************************************)

\* The form creates an event only in an empty list (it edits in any).
MaxFormEvents == 1

\* Nothing stored; an event late in the UTC day; an event whose stored
\* duration is a text that is no number of the input's kind (the load effect
\* takes any field).
InitForm ==
  InitWith({0, 120},
           {<<<<>>, JNull>>,
            <<<<>>, Stored(<<Event("7f3", "L", "2024-03-14T23:30:00.000Z")>>)>>,
            <<<<>>, Stored(<<MkEvent(JStr(Str("q")), JStr(Str("O")),
                                     JStr(Str("2024-03-18T09:00:00.000Z")),
                                     JStr(Str(" -5")), JStr(<<>>), JArr(<<>>))>>)>>})

\* The duration input holds, after typing, nothing or a number.
NextForm ==
  \/ Mount(IdPool)
  \/ PersistEffect
  \/ OpenNewToday
  \/ OpenEditClick
  \/ ChangeField("title", Str("B"))
  \/ \E t \in {<<>>, Str("90"), Str("0"), Str("-5"), Str("1.5")} :
       ChangeField("duration", t)
  \/ SaveEvent(IdPool, MaxFormEvents)
  \/ CancelModal

SpecForm == InitForm /\ [][NextForm]_vars

\* The form's duration field holds a positive integer: the number, or its
\* decimal digits.
HoldsPositiveInteger(v) ==
  \/ IsPositiveInteger(v)
  \/ v.t = "str" /\ v.s # <<>> /\ AllDigits(v.s, 1, Len(v.s)) /\ DigitsValue(v.s) >= 1

\* C2: whatever the form's duration field holds, the event that save puts in
\* the list has a positive integer duration, and it is 60 whenever the field
\* does not hold a positive integer.
SavedDurationIsPositive ==
  [][SaveStep =>
       \A p \in 1..Len(events'.a) :
         (p > Len(events.a) \/ events'.a[p] # events.a[p]) =>
           /\ IsPositiveInteger(Get(events'.a[p], KeyDuration))
           /\ ~HoldsPositiveInteger(form.duration)
                => Get(events'.a[p], KeyDuration) = JInt(60)
    ]_vars

\* C10: opening an event E of the list in the form and saving it with no
\* field changed leaves E's start the same instant, in every time zone.
UntouchedEditKeepsStart ==
  [][(SaveStep /\ Truthy(editingEvent) /\ form = EditForm(editingEvent, tz).form) =>
       \A p \in 1..Len(events.a) :
         events.a[p] = editingEvent =>
           NewDate(Get(events'.a[p], KeyStart), tz)
             = NewDate(Get(editingEvent, KeyStart), tz)
    ]_vars

====
